---- MODULE Spec2Model ----
(***************************************************************************)
(* create-waskit: the scaffolding run of bin/waskit.js as a state machine. *)
(*                                                                         *)
(* One run of the command is one behaviour.  The state is the command's    *)
(* arguments and options, the local variables of createProject, the target *)
(* directory on disk (directories and files, relative to the resolved      *)
(* project path), the stack of nodeCopyDir calls, the child processes      *)
(* spawned so far, the console output so far and the exit code.            *)
(*                                                                         *)
(* Strings that the code takes apart (template ids, paths) are sequences   *)
(* of tokens; file contents are records, a parsed JSON manifest or a       *)
(* sequence of text tokens.                                                *)
(***************************************************************************)
EXTENDS Integers, Sequences, FiniteSets, TLC

VARIABLES
  pc,               \* position of the run inside program.action / createProject
  projectDirectory, \* the [project-directory] argument (path segments)
  options,          \* commander options: force, skipInstall, git, template
  template,         \* createProject local: template
  framework,        \* createProject local: framework
  language,         \* createProject local: language
  cssFramework,     \* createProject local: cssFramework ("Yes" / "No")
  argv,             \* the directory and --template exactly as typed
  templateTree,     \* the file tree of every installed template directory
  dirs0,            \* directories of the target before the run
  files0,           \* files of the target before the run
  copied,           \* the target as an earlier call of copyDir left it
  dirs,             \* directories of the target now (<<>> is the target itself)
  files,            \* files of the target now: relative path -> content
  writes,           \* file-system writes performed by the run so far
  copyStack,        \* the active nodeCopyDir calls, innermost last
  packageJson,      \* createProject local: packageJson (parsed and edited)
  cleanIdx,         \* removeTailwind: index of the next file to rewrite
  procs,            \* child processes started so far, in order
  out,              \* console messages emitted so far, in order
  exitCode          \* the process exit code (meaningful once terminated)

vars == <<pc, projectDirectory, options, template, framework, language,
          cssFramework, argv, templateTree, dirs0, files0, copied, dirs, files,
          writes, copyStack, packageJson, cleanIdx, procs, out, exitCode>>

argVars   == <<projectDirectory, options>>
localVars == <<template, framework, language, cssFramework>>
envVars   == <<argv, templateTree, dirs0, files0, copied>>
fsVars    == <<dirs, files, writes>>

-----------------------------------------------------------------------------
(* Strings and paths *)

\* A falsy (absent or empty) string argument.
NoString == <<>>

\* template.split("-"): the parts between the "-" tokens.
RECURSIVE Split(_)
Split(s) ==
  IF \A i \in 1..Len(s) : s[i] # "-"
    THEN <<s>>
    ELSE LET i == CHOOSE k \in 1..Len(s) :
                    s[k] = "-" /\ \A j \in 1..(k - 1) : s[j] # "-"
         IN  <<SubSeq(s, 1, i - 1)>> \o Split(SubSeq(s, i + 1, Len(s)))

\* String.prototype.toLowerCase on the prompt's choices.
ToLowerCase(w) ==
  CASE w = "JavaScript" -> "javascript"
    [] w = "TypeScript" -> "typescript"
    [] w = "Vanilla"    -> "vanilla"
    [] w = "React"      -> "react"
    [] OTHER            -> w

\* `${framework.toLowerCase()}-${language.toLowerCase()}`
TemplateOf(fw, lang) == <<ToLowerCase(fw), "-", ToLowerCase(lang)>>

\* path.basename of a relative path given as segments.
Basename(p) == p[Len(p)]

\* process.cwd()
Cwd == <<"home", "dev">>

\* path.resolve(base, p): "." segments vanish, ".." drops the segment before.
RECURSIVE Resolve(_, _)
Resolve(base, p) ==
  IF p = <<>> THEN base
  ELSE LET seg == Head(p)
       IN  Resolve(IF seg = "." THEN base
                   ELSE IF seg = ".." THEN SubSeq(base, 1, Len(base) - 1)
                   ELSE Append(base, seg),
                   Tail(p))

ReactJavascript   == <<"react", "-", "javascript">>
ReactTypescript   == <<"react", "-", "typescript">>
VanillaJavascript == <<"vanilla", "-", "javascript">>
VanillaTypescript == <<"vanilla", "-", "typescript">>

\* The directories under templates/.
InstalledTemplates ==
  {ReactJavascript, ReactTypescript, VanillaJavascript, VanillaTypescript}

\* Values given to --template on the command line.
TemplateArgs ==
  {ReactJavascript, VanillaTypescript,
   <<"svelte", "-", "javascript">>, <<"react">>}

\* Values given as [project-directory].
DirectoryArgs == {<<"my-app">>, <<".">>, <<"..">>, <<"apps", "web">>}

-----------------------------------------------------------------------------
(* File contents *)

Json(obj)  == [kind |-> "json", json |-> obj]
Text(toks) == [kind |-> "text", text |-> toks]

TemplateManifest ==
  [name            |-> "waskit-template",
   version         |-> "0.0.0",
   dependencies    |-> ("react" :> "^19") @@ ("tailwindcss" :> "^4")
                       @@ ("@tailwindcss/vite" :> "^4"),
   devDependencies |-> ("vite" :> "^6") @@ ("postcss" :> "^8")]

PackageJsonPath == <<"package.json">>

\* removeTailwind's targets, in the order it visits them.
CleanTargets ==
  << <<"src", "index.css">>, <<"src", "style.css">>, <<"index.html">>,
     <<"vite.config.js">>, <<"vite.config.ts">>, <<"vite.config.jsx">> >>

\* templates/react-javascript/vite.config.js, cut into atoms.
ViteConfigReact ==
  <<"import", " ", "react", " ", "from", " ", "\"", "@vitejs/plugin-react",
      "\"", ";", "\n",
    "import", " ", "tailwindcss", " ", "from", " ", "\"", "@tailwindcss/vite",
      "\"", ";", "\n",
    "export default defineConfig({", "\n",
    " ", "plugins:", " ", "[", "react", "()", ",", " ", "tailwindcss", "()",
      "]", ",", "\n",
    "});", "\n">>

\* templates/vanilla-javascript/vite.config.js.
ViteConfigVanilla ==
  <<"import", " ", "tailwindcss", " ", "from", " ", "\"", "@tailwindcss/vite",
      "\"", ";", "\n",
    "export default defineConfig({", "\n",
    " ", "plugins:", " ", "[", "tailwindcss", "()", "]", ",", "\n",
    "});", "\n">>

\* The build config of templates/vanilla-typescript.
ViteConfigVanillaTs ==
  <<"import", " ", "tailwindcss", " ", "from", " ", "\"", "@tailwindcss/vite",
      "-plugin", "\"", ";", "\n",
    "export default defineConfig({", "\n",
    " ", "plugins:", " ", "[", "tailwindcss", "()", "]", ",", "\n",
    "});", "\n">>

\* A template with a manifest, a nested source folder and a build config.
TreeReact ==
  [dirs  |-> {<<"src">>},
   files |-> (<<"package.json">> :> Json(TemplateManifest))
             @@ (<<"index.html">> :>
                   Text(<<"<div", " ", "id=", "\"", "root", "\"", " ",
                          "class=", "\"", "p-4", "\"", ">">>))
             @@ (<<"vite.config.js">> :> Text(ViteConfigReact))
             @@ (<<"src", "index.css">> :>
                   Text(<<"@import", " ", "\"", "tailwindcss", "\"", ";", "\n",
                          "body{}">>))]

\* A template without a manifest, with a gitignore file under a placeholder
\* name.
TreeBare ==
  [dirs  |-> {<<"src">>},
   files |-> (<<"gitignore">> :> Text(<<"node_modules", "\n", "dist", "\n">>))
             @@ (<<"index.html">> :>
                Text(<<"<div", " ", "class=", "\"", "app", "\"", ">">>))
             @@ (<<"src", "style.css">> :>
                   Text(<<"@import", " ", "'", "tailwindcss", "'", "\n",
                          "h1{}">>))]

TemplateTrees == {TreeReact, TreeBare}

\* A source with files three levels down and an empty folder.
TreeDeep ==
  [dirs  |-> {<<"public">>, <<"src">>, <<"src", "components">>},
   files |-> (<<"README.md">> :> Text(<<"# app">>))
             @@ (<<"src", "main.jsx">> :> Text(<<"render()">>))
             @@ (<<"src", "components", "App.jsx">> :>
                   Text(<<"export", "App">>))]

\* The sources copyDir is exercised on.
CopySources == TemplateTrees \cup {TreeDeep}

\* The names readdir(src/rel) returns.
Entries(tree, rel) ==
  {p[Len(p)] : p \in {q \in tree.dirs \cup DOMAIN tree.files :
                        Len(q) = Len(rel) + 1 /\ SubSeq(q, 1, Len(rel)) = rel}}

NoFiles == [p \in {} |-> Text(<<>>)]

\* A manifest the user wrote: no name yet, no devDependencies.
UserManifest ==
  [version      |-> "1.0.0",
   private      |-> "true",
   dependencies |-> ("lodash" :> "^4") @@ ("tailwindcss" :> "^3")]

\* What the target path can hold before the run.
TargetStates ==
  { [dirs |-> {}, files |-> NoFiles],
    [dirs |-> {<<>>}, files |-> NoFiles],
    [dirs |-> {<<>>},
     files |-> (<<"notes.txt">> :> Text(<<"mine">>))
               @@ (<<"package.json">> :> Text(<<"{ not json">>))],
    [dirs |-> {<<>>},
     files |-> (<<"package.json">> :> Json(UserManifest))
               @@ (<<"notes.txt">> :> Text(<<"mine">>))
               @@ (<<"index.html">> :> Text(<<"<p", " ", "class=", "'", "old", "'", ">">>))] }

\* A destination that already holds part of a source tree, with other content.
PartialTarget ==
  [dirs  |-> {<<>>, <<"src">>},
   files |-> (<<"src", "main.jsx">> :> Text(<<"old">>))
             @@ (<<"src", "keep.txt">> :> Text(<<"mine">>))]

\* The destinations copyDir is exercised on.
CopyTargets == TargetStates \cup {PartialTarget}

\* Variant of Put: an existing file is kept aside under backup/ first.
PutKeepingBackup(fs, p, content) ==
  IF p \in DOMAIN fs
    THEN (p :> content) @@ ((<<"backup">> \o p) :> fs[p]) @@ fs
    ELSE (p :> content) @@ fs

\* files with the file at path p (over)written.
Put(fs, p, content) == (p :> content) @@ fs

-----------------------------------------------------------------------------
(* Manifest edit and text rewrites *)

\* JSON.parse / Bun.file().json(): defined on well-formed JSON only.
CanParse(content) == content.kind = "json"
Parse(content) == content.json

\* JSON.stringify(packageJson, null, 2), as file content.
Stringify(obj) == Json(obj)

\* The keys createProject deletes when Tailwind is declined.
TailwindDeps == {"tailwindcss", "@tailwindcss/vite", "postcss", "autoprefixer"}

\* delete map[k] for every k of keys.
Without(map, keys) == [k \in DOMAIN map \ keys |-> map[k]]

\* Variant of EditManifest: the name is set only on the declined branch.
EditManifestNameIfDeclined(obj, name, css) ==
  IF css = "No"
    THEN [k \in DOMAIN obj \cup {"name"} |->
            IF k = "name" THEN name
            ELSE IF k = "dependencies" THEN Without(obj[k], TailwindDeps)
            ELSE obj[k]]
    ELSE obj

\* Lines 138-148: set the name; under "No", delete the keys from dependencies.
EditManifest(obj, name, css) ==
  LET named == [k \in DOMAIN obj \cup {"name"} |->
                  IF k = "name" THEN name ELSE obj[k]]
  IN  IF css = "No" /\ "dependencies" \in DOMAIN named
        THEN [named EXCEPT !.dependencies = Without(@, TailwindDeps)]
        ELSE named

(* A text file is a sequence of atoms: substrings cut so that every        *)
(* pattern of removeTailwind begins and ends on an atom boundary.           *)

Quotes == {"\"", "'"}

\* \s
Blank == {" ", "\n"}

\* The i-th atom of s, or "" past its end.
At(s, i) == IF i \in 1..Len(s) THEN s[i] ELSE ""

\* 1 when the atom at i is a, else 0: the length an optional atom takes.
Optional(s, i, a) == IF At(s, i) = a THEN 1 ELSE 0

\* The number of atoms of Blank from position i on.
RECURSIVE BlankRun(_, _)
BlankRun(s, i) == IF At(s, i) \in Blank THEN 1 + BlankRun(s, i + 1) ELSE 0

\* /@import ['"]tailwindcss['"];?/ at the start of s: the atoms it takes.
CssImportMatch(s) ==
  IF /\ At(s, 1) = "@import"
     /\ At(s, 2) = " "
     /\ At(s, 3) \in Quotes
     /\ At(s, 4) = "tailwindcss"
     /\ At(s, 5) \in Quotes
    THEN 5 + Optional(s, 6, ";")
    ELSE 0

\* The position of the first " from i on before any line end, else 0.
RECURSIVE ClosingQuote(_, _)
ClosingQuote(s, i) ==
  IF At(s, i) \in {"", "\n"} THEN 0
  ELSE IF At(s, i) = "\"" THEN i
  ELSE ClosingQuote(s, i + 1)

\* /class=".*?"/ at the start of s.
ClassAttrMatch(s) ==
  IF At(s, 1) = "class=" /\ At(s, 2) = "\"" THEN ClosingQuote(s, 3) ELSE 0

\* /import tailwindcss(?:\/vite)? from
\*    ['"](?:@tailwindcss\/vite|tailwindcss(?:\/vite)?)['"];\n?/ at the start of s.
ViteImportMatch(s) ==
  LET from == 4 + Optional(s, 4, "/vite")
      pkg  == from + 4
      last == IF At(s, pkg) = "@tailwindcss/vite" THEN pkg
              ELSE IF At(s, pkg) = "tailwindcss"
                THEN pkg + Optional(s, pkg + 1, "/vite")
              ELSE 0
  IN  IF /\ At(s, 1) = "import"
         /\ At(s, 2) = " "
         /\ At(s, 3) = "tailwindcss"
         /\ At(s, from) = " "
         /\ At(s, from + 1) = "from"
         /\ At(s, from + 2) = " "
         /\ At(s, from + 3) \in Quotes
         /\ last # 0
         /\ At(s, last + 1) \in Quotes
         /\ At(s, last + 2) = ";"
        THEN last + 2 + Optional(s, last + 3, "\n")
        ELSE 0

\* /tailwindcss\(\),?/ at the start of s.
PluginCallMatch(s) ==
  IF At(s, 1) = "tailwindcss" /\ At(s, 2) = "()"
    THEN 2 + Optional(s, 3, ",")
    ELSE 0

\* /tailwindcss\/vite\(\),?/ at the start of s.
PluginPathCallMatch(s) ==
  IF At(s, 1) = "tailwindcss" /\ At(s, 2) = "/vite" /\ At(s, 3) = "()"
    THEN 3 + Optional(s, 4, ",")
    ELSE 0

\* Variant of EmptyPluginsMatch: no white space allowed inside the brackets.
EmptyPluginsMatchNoBlank(s) ==
  LET close == 4 + Optional(s, 4, ",")
  IN  IF /\ At(s, 1) = "plugins:"
         /\ At(s, 2) = " "
         /\ At(s, 3) = "["
         /\ At(s, close) = "]"
        THEN close
        ELSE 0

\* /plugins: \[\s*,?\s*\]/ at the start of s.
EmptyPluginsMatch(s) ==
  LET comma == 4 + BlankRun(s, 4)
      close == comma + Optional(s, comma, ",")
      last  == close + BlankRun(s, close)
  IN  IF /\ At(s, 1) = "plugins:"
         /\ At(s, 2) = " "
         /\ At(s, 3) = "["
         /\ At(s, last) = "]"
        THEN last
        ELSE 0

\* /plugins: \[\s*,\s*]/ at the start of s.
CommaPluginsMatch(s) ==
  LET comma == 4 + BlankRun(s, 4)
      last  == comma + 1 + BlankRun(s, comma + 1)
  IN  IF /\ At(s, 1) = "plugins:"
         /\ At(s, 2) = " "
         /\ At(s, 3) = "["
         /\ At(s, comma) = ","
         /\ At(s, last) = "]"
        THEN last
        ELSE 0

\* The atoms the pattern named re takes at the start of s; 0: no match.
MatchLen(re, s) ==
  CASE re = "cssImport"      -> CssImportMatch(s)
    [] re = "classAttr"      -> ClassAttrMatch(s)
    [] re = "viteImport"     -> ViteImportMatch(s)
    [] re = "pluginCall"     -> PluginCallMatch(s)
    [] re = "pluginPathCall" -> PluginPathCallMatch(s)
    [] re = "emptyPlugins"   -> EmptyPluginsMatch(s)
    [] re = "commaPlugins"   -> CommaPluginsMatch(s)

\* String.prototype.replace(/re/g, with): leftmost matches, left to right.
RECURSIVE ReplaceAll(_, _, _)
ReplaceAll(s, re, with) ==
  IF s = <<>> THEN <<>>
  ELSE LET n == MatchLen(re, s)
       IN  IF n > 0
             THEN with \o ReplaceAll(SubSeq(s, n + 1, Len(s)), re, with)
             ELSE <<Head(s)>> \o ReplaceAll(Tail(s), re, with)

\* "plugins: []"
EmptyPlugins == <<"plugins:", " ", "[", "]">>

\* Line 362.
RewriteCss(toks) == ReplaceAll(toks, "cssImport", <<>>)

\* Line 372.
RewriteHtml(toks) == ReplaceAll(toks, "classAttr", <<>>)

\* Lines 388-409: the five replacements, in the order of the code.
RewriteViteConfig(toks) ==
  LET noImport == ReplaceAll(toks, "viteImport", <<>>)
      noCall   == ReplaceAll(noImport, "pluginCall", <<>>)
      noPath   == ReplaceAll(noCall, "pluginPathCall", <<>>)
      cleaned  == ReplaceAll(noPath, "emptyPlugins", EmptyPlugins)
  IN  ReplaceAll(cleaned, "commaPlugins", EmptyPlugins)

\* removeTailwind's rewrite of the i-th target.
RewriteTarget(i, toks) ==
  IF i <= 2 THEN RewriteCss(toks)
  ELSE IF i = 3 THEN RewriteHtml(toks)
  ELSE RewriteViteConfig(toks)

\* The "Removed ..." message after the i-th target.
RemovedMessage(i) ==
  IF i <= 2 THEN "removed_css" ELSE IF i = 3 THEN "removed_classes"
  ELSE "removed_plugin"

-----------------------------------------------------------------------------
(* The run *)

\* Exit statuses of a child process: zero and nonzero.
Statuses == {0, 1}

TargetExists == <<>> \in dirs

\* Line 26.
ProjectName == Basename(projectDirectory)

\* Line 28.
AbsoluteProjectPath == Resolve(Cwd, projectDirectory)

\* Variant of NeedsConfirm: the force flag read without its negation.
NeedsConfirmForced(exists, force) == exists /\ force

\* Line 32: the overwrite confirmation is needed.
NeedsConfirm(exists, force) == exists /\ ~force

\* Variant of TemplateResolves: the existence check left out.
TemplateResolvesUnchecked(t) == TRUE

\* Line 106: existsSync(templateDir).
TemplateResolves(t) == t \in InstalledTemplates

\* Line 175.
GitRequested(opts) == opts.git

\* Variant of InstallRequested: the flag read with the opposite polarity.
InstallRequestedInverted(opts) == opts.skipInstall

\* Line 217.
InstallRequested(opts) == ~opts.skipInstall

Say(msgs) == out' = out \o msgs

\* process.exit(code) after printing msgs.
ExitWith(state, code, msgs) ==
  /\ pc' = state
  /\ exitCode' = code
  /\ Say(msgs)

\* The catch of createProject, lines 267-270.
FatalError ==
  /\ ExitWith("aborted", 1, <<"error">>)
  /\ UNCHANGED <<argVars, localVars, envVars, fsVars, copyStack, packageJson,
                 cleanIdx, procs>>

OptionSets ==
  [force : BOOLEAN, skipInstall : BOOLEAN, git : BOOLEAN,
   template : TemplateArgs \cup {NoString}]

\* No earlier call of copyDir has returned.
NotCopied == [done |-> FALSE, dirs |-> {}, files |-> NoFiles]

InitRest ==
  /\ argv = [directory |-> projectDirectory, template |-> options.template]
  /\ copied = NotCopied
  /\ template = NoString
  /\ framework = NoString
  /\ language = NoString
  /\ cssFramework = ""
  /\ templateTree \in TemplateTrees
  /\ \E t \in TargetStates : dirs0 = t.dirs /\ files0 = t.files
  /\ dirs = dirs0
  /\ files = files0
  /\ writes = {}
  /\ copyStack = <<>>
  /\ packageJson = [name |-> ""]
  /\ cleanIdx = 0
  /\ procs = <<>>
  /\ out = <<>>
  /\ exitCode = 0

\* The command line as commander hands it to the action handler.
Init ==
  /\ pc = "action"
  /\ projectDirectory \in DirectoryArgs \cup {NoString}
  /\ options \in OptionSets
  /\ InitRest

\* Lines 436-448: the defaults the action handler fills in.
ProgramAction ==
  /\ pc = "action"
  /\ IF projectDirectory = NoString
       THEN /\ options' = [options EXCEPT !.template = ReactJavascript]
            /\ projectDirectory' = <<".">>
       ELSE /\ options' = IF options.template = NoString
                            THEN [options EXCEPT !.template = ReactJavascript]
                            ELSE options
            /\ UNCHANGED projectDirectory
  /\ pc' = "start"
  /\ UNCHANGED <<localVars, envVars, fsVars, copyStack, packageJson, cleanIdx,
                 procs, out, exitCode>>

\* Variant of CheckTarget: the existence check is left out.
CheckTargetNever ==
  /\ pc = "start"
  /\ pc' = "select"
  /\ UNCHANGED <<argVars, localVars, envVars, fsVars, copyStack, packageJson,
                 cleanIdx, procs, out, exitCode>>

\* Lines 32-42: ask before touching an existing directory.
CheckTarget ==
  /\ pc = "start"
  /\ IF NeedsConfirm(TargetExists, options.force)
       THEN pc' = "confirm" /\ Say(<<"prompt_overwrite">>)
       ELSE pc' = "select" /\ UNCHANGED out
  /\ UNCHANGED <<argVars, localVars, envVars, fsVars, copyStack, packageJson,
                 cleanIdx, procs, exitCode>>

\* Variant of AnswerOverwrite: the message is printed but the process goes on.
AnswerOverwriteNoExit ==
  /\ pc = "confirm"
  /\ \E overwrite \in BOOLEAN :
       /\ pc' = "select"
       /\ IF ~overwrite THEN Say(<<"cancelled">>) ELSE UNCHANGED out
  /\ UNCHANGED <<argVars, localVars, envVars, fsVars, copyStack, packageJson,
                 cleanIdx, procs, exitCode>>

\* Lines 35-48: the answer to the confirmation.
AnswerOverwrite ==
  /\ pc = "confirm"
  /\ \E overwrite \in BOOLEAN :
       IF ~overwrite
         THEN ExitWith("cancelled", 0, <<"cancelled">>)
         ELSE pc' = "select" /\ UNCHANGED <<out, exitCode>>
  /\ UNCHANGED <<argVars, localVars, envVars, fsVars, copyStack, packageJson,
                 cleanIdx, procs>>

\* Lines 53-65: --template was given.
UseTemplateOption ==
  /\ pc = "select"
  /\ options.template # NoString
  /\ template' = options.template
  /\ LET templateParts == Split(options.template)
     IN  IF Len(templateParts) # 2
           THEN /\ ExitWith("aborted", 1, <<"error_format">>)
                /\ UNCHANGED <<framework, language, cssFramework>>
           ELSE /\ framework' = templateParts[1]
                /\ language' = templateParts[2]
                /\ cssFramework' = "Yes"
                /\ pc' = "resolve"
                /\ UNCHANGED <<out, exitCode>>
  /\ UNCHANGED <<argVars, envVars, fsVars, copyStack, packageJson, cleanIdx,
                 procs>>

\* Lines 66-100: the three interactive choices.
PromptChoices ==
  /\ pc = "select"
  /\ options.template = NoString
  /\ \E selectedLanguage \in {"JavaScript", "TypeScript"},
        selectedFramework \in {"Vanilla", "React"},
        selectedCssFramework \in {"Yes", "No"} :
       /\ language' = <<selectedLanguage>>
       /\ framework' = <<selectedFramework>>
       /\ cssFramework' = selectedCssFramework
       /\ template' = TemplateOf(selectedFramework, selectedLanguage)
  /\ pc' = "resolve"
  /\ Say(<<"prompt_choices">>)
  /\ UNCHANGED <<argVars, envVars, fsVars, copyStack, packageJson, cleanIdx,
                 procs, exitCode>>

\* Lines 102-111: the template directory must exist.
ResolveTemplate ==
  /\ pc = "resolve"
  /\ IF ~TemplateResolves(template)
       THEN ExitWith("aborted", 1, <<"looking", "error_not_found">>)
       ELSE /\ pc' = "mkdir"
            /\ Say(<<"looking", "using_template">>)
            /\ UNCHANGED exitCode
  /\ UNCHANGED <<argVars, localVars, envVars, fsVars, copyStack, packageJson,
                 cleanIdx, procs>>

\* Variant of MakeProjectDir: an existing target is emptied first.
MakeProjectDirEmptied ==
  /\ pc = "mkdir"
  /\ IF ~TargetExists
       THEN /\ dirs' = dirs \cup {<<>>}
            /\ writes' = writes \cup {[op |-> "mkdir", path |-> <<>>]}
            /\ UNCHANGED files
       ELSE /\ files' = NoFiles
            /\ dirs' = {<<>>}
            /\ writes' = writes \cup {[op |-> "rm", path |-> <<>>]}
  /\ Say(<<"creating">>)
  /\ copyStack' = <<[rel |-> <<>>, state |-> "enter", todo |-> {}]>>
  /\ pc' = "copy"
  /\ UNCHANGED <<argVars, localVars, envVars, packageJson, cleanIdx,
                 procs, exitCode>>

\* Lines 113-120: create the project directory and call copyDir.
MakeProjectDir ==
  /\ pc = "mkdir"
  /\ IF ~TargetExists
       THEN /\ dirs' = dirs \cup {<<>>}
            /\ writes' = writes \cup {[op |-> "mkdir", path |-> <<>>]}
       ELSE UNCHANGED <<dirs, writes>>
  /\ Say(<<"creating">>)
  /\ copyStack' = <<[rel |-> <<>>, state |-> "enter", todo |-> {}]>>
  /\ pc' = "copy"
  /\ UNCHANGED <<argVars, localVars, envVars, files, packageJson, cleanIdx,
                 procs, exitCode>>

\* Line 115 throws (permissions, a file in the way).
MakeProjectDirFails ==
  /\ pc = "mkdir"
  /\ ~TargetExists
  /\ FatalError

-----------------------------------------------------------------------------
(* copyDir / nodeCopyDir *)

Top == copyStack[Len(copyStack)]

SetTop(frame) == [copyStack EXCEPT ![Len(copyStack)] = frame]

\* Lines 331-332: mkdir(dest, recursive) and readdir(src) of one call.
CopyEnterDir ==
  /\ pc = "copy"
  /\ Top.state = "enter"
  /\ dirs' = dirs \cup {Top.rel}
  /\ writes' = writes \cup {[op |-> "mkdir", path |-> Top.rel]}
  /\ copyStack' = SetTop([Top EXCEPT !.state = "loop",
                                     !.todo = Entries(templateTree, Top.rel)])
  /\ UNCHANGED <<pc, argVars, localVars, envVars, files, packageJson, cleanIdx,
                 procs, out, exitCode>>

\* Variant of CopyEntry: a directory entry is passed over, not entered.
CopyEntryShallow ==
  /\ pc = "copy"
  /\ Top.state = "loop"
  /\ \E name \in Top.todo :
       LET path == Top.rel \o <<name>>
           rest == SetTop([Top EXCEPT !.todo = @ \ {name}])
       IN  IF path \in templateTree.dirs
             THEN /\ copyStack' = rest
                  /\ UNCHANGED <<files, writes>>
             ELSE /\ files' = Put(files, path, templateTree.files[path])
                  /\ writes' = writes \cup {[op |-> "copyFile", path |-> path]}
                  /\ copyStack' = rest
  /\ UNCHANGED <<pc, argVars, localVars, envVars, dirs, packageJson, cleanIdx,
                 procs, out, exitCode>>

\* Variant of CopyEntry: a file named gitignore is written as .gitignore.
CopyEntryRenaming ==
  /\ pc = "copy"
  /\ Top.state = "loop"
  /\ \E name \in Top.todo :
       LET path == Top.rel \o <<name>>
           dest == Top.rel \o <<IF name = "gitignore" THEN ".gitignore" ELSE name>>
           rest == SetTop([Top EXCEPT !.todo = @ \ {name}])
       IN  IF path \in templateTree.dirs
             THEN /\ copyStack' =
                       Append(rest, [rel |-> path, state |-> "enter", todo |-> {}])
                  /\ UNCHANGED <<files, writes>>
             ELSE /\ files' = Put(files, dest, templateTree.files[path])
                  /\ writes' = writes \cup {[op |-> "copyFile", path |-> path]}
                  /\ copyStack' = rest
  /\ UNCHANGED <<pc, argVars, localVars, envVars, dirs, packageJson, cleanIdx,
                 procs, out, exitCode>>

\* Lines 334-343: one entry: recurse into a directory, or copy a file.
CopyEntry ==
  /\ pc = "copy"
  /\ Top.state = "loop"
  /\ \E name \in Top.todo :
       LET path == Top.rel \o <<name>>
           rest == SetTop([Top EXCEPT !.todo = @ \ {name}])
       IN  IF path \in templateTree.dirs
             THEN /\ copyStack' =
                       Append(rest, [rel |-> path, state |-> "enter", todo |-> {}])
                  /\ UNCHANGED <<files, writes>>
             ELSE /\ files' = Put(files, path, templateTree.files[path])
                  /\ writes' = writes \cup {[op |-> "copyFile", path |-> path]}
                  /\ copyStack' = rest
  /\ UNCHANGED <<pc, argVars, localVars, envVars, dirs, packageJson, cleanIdx,
                 procs, out, exitCode>>

\* The position after copyDir returned (line 122).
AfterCopy == "manifest"

\* Variant of CopyReturn: a call returns although entries are left.
CopyReturnEarly ==
  /\ pc = "copy"
  /\ Top.state = "loop"
  /\ copyStack' = SubSeq(copyStack, 1, Len(copyStack) - 1)
  /\ pc' = IF Len(copyStack) = 1 THEN AfterCopy ELSE "copy"
  /\ UNCHANGED <<argVars, localVars, envVars, fsVars, packageJson, cleanIdx,
                 procs, out, exitCode>>

\* The loop of a call is over: return to the caller.
CopyReturn ==
  /\ pc = "copy"
  /\ Top.state = "loop"
  /\ Top.todo = {}
  /\ copyStack' = SubSeq(copyStack, 1, Len(copyStack) - 1)
  /\ pc' = IF Len(copyStack) = 1 THEN AfterCopy ELSE "copy"
  /\ UNCHANGED <<argVars, localVars, envVars, fsVars, packageJson, cleanIdx,
                 procs, out, exitCode>>

\* Variant of CopyFails: the failure is reported and the run goes on.
CopyFailsContinues ==
  /\ pc = "copy"
  /\ Top.state = "enter" \/ Top.todo # {}
  /\ pc' = AfterCopy
  /\ copyStack' = <<>>
  /\ Say(<<"error_copy">>)
  /\ UNCHANGED <<argVars, localVars, envVars, fsVars, packageJson, cleanIdx,
                 procs, exitCode>>

\* Lines 318-320: mkdir, readdir or copyFile rejects; copyDir reports and exits.
CopyFails ==
  /\ pc = "copy"
  /\ Top.state = "enter" \/ Top.todo # {}
  /\ ExitWith("aborted", 1, <<"error_copy">>)
  /\ UNCHANGED <<argVars, localVars, envVars, fsVars, copyStack, packageJson,
                 cleanIdx, procs>>

-----------------------------------------------------------------------------
(* package.json *)

\* Variant of ReadManifest: a manifest that does not parse is passed over.
ReadManifestSkipsMalformed ==
  /\ pc = "manifest"
  /\ IF PackageJsonPath \notin DOMAIN files \/ ~CanParse(files[PackageJsonPath])
       THEN /\ pc' = "clean"
            /\ Say(<<"warn_no_package_json">>)
            /\ UNCHANGED <<packageJson, exitCode>>
       ELSE /\ packageJson' = EditManifest(Parse(files[PackageJsonPath]),
                                           ProjectName, cssFramework)
            /\ pc' = "manifest_write"
            /\ UNCHANGED <<out, exitCode>>
  /\ UNCHANGED <<argVars, localVars, envVars, fsVars, copyStack, cleanIdx,
                 procs>>

\* Lines 123-148 and 160-162: read, parse and edit the manifest.
ReadManifest ==
  /\ pc = "manifest"
  /\ IF PackageJsonPath \notin DOMAIN files
       THEN /\ pc' = "clean"
            /\ Say(<<"warn_no_package_json">>)
            /\ UNCHANGED <<packageJson, exitCode>>
       ELSE IF ~CanParse(files[PackageJsonPath])
         THEN /\ ExitWith("aborted", 1, <<"error">>)
              /\ UNCHANGED packageJson
         ELSE /\ packageJson' = EditManifest(Parse(files[PackageJsonPath]),
                                             ProjectName, cssFramework)
              /\ pc' = "manifest_write"
              /\ UNCHANGED <<out, exitCode>>
  /\ UNCHANGED <<argVars, localVars, envVars, fsVars, copyStack, cleanIdx,
                 procs>>

\* Lines 150-159: write the manifest back.
WriteManifest ==
  /\ pc = "manifest_write"
  /\ files' = Put(files, PackageJsonPath, Stringify(packageJson))
  /\ writes' = writes \cup {[op |-> "writeFile", path |-> PackageJsonPath]}
  /\ pc' = "clean"
  /\ UNCHANGED <<argVars, localVars, envVars, dirs, copyStack, packageJson,
                 cleanIdx, procs, out, exitCode>>

\* The read or the write of the manifest rejects.
ManifestIOFails ==
  /\ \/ pc = "manifest" /\ PackageJsonPath \in DOMAIN files
     \/ pc = "manifest_write"
  /\ FatalError

-----------------------------------------------------------------------------
(* removeTailwind *)

\* Variant of StartClean: removeTailwind runs whatever was answered.
StartCleanAlways ==
  /\ pc = "clean"
  /\ pc' = "rewrite" /\ cleanIdx' = 1 /\ Say(<<"removing_tailwind">>)
  /\ UNCHANGED <<argVars, localVars, envVars, fsVars, copyStack, packageJson,
                 procs, exitCode>>

\* Lines 164-172: removeTailwind runs only when Tailwind was declined.
StartClean ==
  /\ pc = "clean"
  /\ IF cssFramework = "No"
       THEN pc' = "rewrite" /\ cleanIdx' = 1 /\ Say(<<"removing_tailwind">>)
       ELSE pc' = "git" /\ Say(<<"created">>) /\ UNCHANGED cleanIdx
  /\ UNCHANGED <<argVars, localVars, envVars, fsVars, copyStack, packageJson,
                 procs, exitCode>>

\* Variant of RewriteFile: the target is read without the existence test.
RewriteFileUnchecked ==
  /\ pc = "rewrite"
  /\ LET path == CleanTargets[cleanIdx]
         last == cleanIdx = Len(CleanTargets)
         done == IF last THEN <<"created">> ELSE <<>>
     IN  IF path \in DOMAIN files
           THEN /\ files' = Put(files, path,
                                Text(RewriteTarget(cleanIdx, files[path].text)))
                /\ writes' = writes \cup {[op |-> "writeFile", path |-> path]}
                /\ Say(<<RemovedMessage(cleanIdx)>> \o done)
                /\ pc' = IF last THEN "git" ELSE "rewrite"
                /\ cleanIdx' = cleanIdx + 1
                /\ UNCHANGED exitCode
           ELSE /\ ExitWith("aborted", 1, <<"error">>)
                /\ UNCHANGED <<files, writes, cleanIdx>>
  /\ UNCHANGED <<argVars, localVars, envVars, dirs, copyStack, packageJson,
                 procs>>

\* Lines 359-416: one target: skipped when absent, else read, rewritten, written.
RewriteFile ==
  /\ pc = "rewrite"
  /\ LET path == CleanTargets[cleanIdx]
         last == cleanIdx = Len(CleanTargets)
         done == IF last THEN <<"created">> ELSE <<>>
     IN  /\ IF path \in DOMAIN files
              THEN /\ files' = Put(files, path,
                                   Text(RewriteTarget(cleanIdx, files[path].text)))
                   /\ writes' = writes \cup {[op |-> "writeFile", path |-> path]}
                   /\ Say(<<RemovedMessage(cleanIdx)>> \o done)
              ELSE /\ UNCHANGED <<files, writes>>
                   /\ Say(done)
         /\ pc' = IF last THEN "git" ELSE "rewrite"
         /\ cleanIdx' = cleanIdx + 1
  /\ UNCHANGED <<argVars, localVars, envVars, dirs, copyStack, packageJson,
                 procs, exitCode>>

\* A read or write inside removeTailwind rejects.
RewriteFails ==
  /\ pc = "rewrite"
  /\ CleanTargets[cleanIdx] \in DOMAIN files
  /\ FatalError

-----------------------------------------------------------------------------
(* Child processes: spawnSync / execSync block until the child has exited *)

Running == procs # <<>> /\ ~procs[Len(procs)].exited

Spawn(cmd) ==
  procs' = Append(procs, [cmd |-> cmd, exited |-> FALSE, status |-> 0])

Exits(status) ==
  procs' = [procs EXCEPT ![Len(procs)] =
              [@ EXCEPT !.exited = TRUE, !.status = status]]

GitSteps == {"git_init", "git_add", "git_commit"}

GitCommand(step) ==
  CASE step = "git_init"   -> "git init"
    [] step = "git_add"    -> "git add ."
    [] step = "git_commit" -> "git commit"

\* Variant of NextGitStep: the status of a step is not looked at.
NextGitStepUnchecked(step, status) ==
  CASE step = "git_init"   -> "git_add"
    [] step = "git_add"    -> "git_commit"
    [] step = "git_commit" -> "install"

\* Variant of NextGitStep: the error of a failed step reaches the outer catch.
NextGitStepThrows(step, status) ==
  IF status # 0 THEN "aborted"
  ELSE CASE step = "git_init"   -> "git_add"
         [] step = "git_add"    -> "git_commit"
         [] step = "git_commit" -> "install"

\* Lines 183-207: a nonzero status throws past the remaining git steps.
NextGitStep(step, status) ==
  IF status # 0 THEN "install"
  ELSE CASE step = "git_init"   -> "git_add"
         [] step = "git_add"    -> "git_commit"
         [] step = "git_commit" -> "install"

\* Lines 174-176.
StartGit ==
  /\ pc = "git"
  /\ IF GitRequested(options)
       THEN pc' = "git_init" /\ Say(<<"git_start">>)
       ELSE pc' = "install" /\ UNCHANGED out
  /\ UNCHANGED <<argVars, localVars, envVars, fsVars, copyStack, packageJson,
                 cleanIdx, procs, exitCode>>

\* Lines 178, 187, 196: spawnSync("git", ...) starts the child.
SpawnGit ==
  /\ pc \in GitSteps
  /\ ~Running
  /\ Spawn(GitCommand(pc))
  /\ UNCHANGED <<pc, argVars, localVars, envVars, fsVars, copyStack,
                 packageJson, cleanIdx, out, exitCode>>

\* Lines 183-213: the child exited; its status decides what follows.
GitExits ==
  /\ pc \in GitSteps
  /\ Running
  /\ \E status \in Statuses :
       /\ Exits(status)
       /\ pc' = NextGitStep(pc, status)
       /\ Say(IF status # 0 THEN <<"warn_git">>
              ELSE IF pc = "git_commit" THEN <<"git_ok">> ELSE <<>>)
  /\ UNCHANGED <<argVars, localVars, envVars, fsVars, copyStack, packageJson,
                 cleanIdx, exitCode>>

InstallSteps == {"probe", "bun_install", "npm_install"}

InstallCommand(step) ==
  CASE step = "probe"       -> "bun --version"
    [] step = "bun_install" -> "bun install"
    [] step = "npm_install" -> "npm install"

\* Variant of AfterProbe: the result of the probe is ignored.
AfterProbeIgnored(status) == "bun_install"

\* Lines 222-237: execSync throws on a failed probe.
AfterProbe(status) == IF status = 0 THEN "bun_install" ELSE "npm_install"

\* Variant of AfterBunInstall: no fallback after a failed bun install.
AfterBunInstallNoFallback(status) == "summary"

\* Lines 231-237: a failed bun install throws into the npm fallback.
AfterBunInstall(status) == IF status = 0 THEN "summary" ELSE "npm_install"

\* Variant of AfterNpmInstall: the error of a failed npm install is not caught.
AfterNpmInstallThrows(status) == IF status = 0 THEN "summary" ELSE "aborted"

\* Lines 247-257: a failed npm install is reported; the run goes on.
AfterNpmInstall(status) == "summary"

\* Lines 216-218.
StartInstall ==
  /\ pc = "install"
  /\ IF InstallRequested(options)
       THEN pc' = "probe" /\ Say(<<"installing">>)
       ELSE pc' = "summary" /\ UNCHANGED out
  /\ UNCHANGED <<argVars, localVars, envVars, fsVars, copyStack, packageJson,
                 cleanIdx, procs, exitCode>>

\* Lines 222, 225, 241: the probe or an install starts.
SpawnInstaller ==
  /\ pc \in InstallSteps
  /\ ~Running
  /\ Spawn(InstallCommand(pc))
  /\ UNCHANGED <<pc, argVars, localVars, envVars, fsVars, copyStack,
                 packageJson, cleanIdx, out, exitCode>>

\* Lines 222-223 and 234-237.
ProbeExits ==
  /\ pc = "probe"
  /\ Running
  /\ \E status \in Statuses :
       /\ Exits(status)
       /\ pc' = AfterProbe(status)
       /\ Say(IF status = 0 THEN <<"using_bun">> ELSE <<"fallback_npm">>)
  /\ UNCHANGED <<argVars, localVars, envVars, fsVars, copyStack, packageJson,
                 cleanIdx, exitCode>>

\* Lines 231-237 and 257.
BunInstallExits ==
  /\ pc = "bun_install"
  /\ Running
  /\ \E status \in Statuses :
       /\ Exits(status)
       /\ pc' = AfterBunInstall(status)
       /\ Say(IF status = 0 THEN <<"install_ok">> ELSE <<"fallback_npm">>)
  /\ UNCHANGED <<argVars, localVars, envVars, fsVars, copyStack, packageJson,
                 cleanIdx, exitCode>>

\* Lines 247-257.
NpmInstallExits ==
  /\ pc = "npm_install"
  /\ Running
  /\ \E status \in Statuses :
       /\ Exits(status)
       /\ pc' = AfterNpmInstall(status)
       /\ Say(IF status = 0 THEN <<"install_ok">>
              ELSE <<"error_install", "install_ok">>)
  /\ UNCHANGED <<argVars, localVars, envVars, fsVars, copyStack, packageJson,
                 cleanIdx, exitCode>>

\* Variant of ShowNextSteps: createProject returns without the summary.
ShowNextStepsSilent ==
  /\ pc = "summary"
  /\ ExitWith("done", 0, <<>>)
  /\ UNCHANGED <<argVars, localVars, envVars, fsVars, copyStack, packageJson,
                 cleanIdx, procs>>

\* Lines 260-266: the next steps; createProject returns.
ShowNextSteps ==
  /\ pc = "summary"
  /\ ExitWith("done", 0, <<"next_steps">>)
  /\ UNCHANGED <<argVars, localVars, envVars, fsVars, copyStack, packageJson,
                 cleanIdx, procs>>

-----------------------------------------------------------------------------
(* Specifications *)

\* The steps of createProject every run can take.
CreateSteps ==
  \/ CheckTarget
  \/ AnswerOverwrite
  \/ UseTemplateOption
  \/ ResolveTemplate
  \/ MakeProjectDir
  \/ MakeProjectDirFails
  \/ CopyEnterDir
  \/ CopyEntry
  \/ CopyReturn
  \/ CopyFails
  \/ ReadManifest
  \/ WriteManifest
  \/ ManifestIOFails
  \/ StartClean
  \/ StartGit
  \/ SpawnGit
  \/ GitExits
  \/ StartInstall
  \/ SpawnInstaller
  \/ ProbeExits
  \/ BunInstallExits
  \/ NpmInstallExits
  \/ ShowNextSteps

\* The command: program.action, then createProject.
Next == ProgramAction \/ CreateSteps

Spec == Init /\ [][Next]_vars

\* createProject called with any options, the template possibly absent.
InitCreate ==
  /\ pc = "start"
  /\ projectDirectory \in DirectoryArgs
  /\ options \in OptionSets
  /\ InitRest

NextCreate == CreateSteps \/ PromptChoices \/ RewriteFile \/ RewriteFails

SpecCreate == InitCreate /\ [][NextCreate]_vars

\* Lines 359-416: removeTailwind goes on from a target it has nothing to do
\* for; the step is possible at every target, so that its fairness says the
\* loops do not stay at one target for ever.
NextTarget ==
  /\ pc = "rewrite"
  /\ cleanIdx' = cleanIdx + 1
  /\ pc' = IF cleanIdx = Len(CleanTargets) THEN "git" ELSE "rewrite"
  /\ UNCHANGED <<argVars, localVars, envVars, fsVars, copyStack, packageJson,
                 procs, out, exitCode>>

\* Every prompt is answered and every child exits: each await and each
\* synchronous call returns, so a step that can be taken is taken.
FairCreate ==
  /\ SpecCreate
  /\ WF_vars(CreateSteps \/ PromptChoices)
  /\ WF_vars(NextTarget)

\* The frame of a call copyDir(src, dest) that has just been made.
CopyCall == <<[rel |-> <<>>, state |-> "enter", todo |-> {}]>>

\* copyDir called on its own: any source tree onto any destination.
InitCopy ==
  /\ pc = "copy"
  /\ projectDirectory \in DirectoryArgs
  /\ options = [force |-> TRUE, skipInstall |-> TRUE, git |-> FALSE,
                template |-> NoString]
  /\ argv = [directory |-> projectDirectory, template |-> NoString]
  /\ copied = NotCopied
  /\ template = NoString
  /\ framework = NoString
  /\ language = NoString
  /\ cssFramework = ""
  /\ templateTree \in CopySources
  /\ \E t \in CopyTargets : dirs0 = t.dirs /\ files0 = t.files
  /\ dirs = dirs0
  /\ files = files0
  /\ writes = {}
  /\ copyStack = CopyCall
  /\ packageJson = [name |-> ""]
  /\ cleanIdx = 0
  /\ procs = <<>>
  /\ out = <<>>
  /\ exitCode = 0

\* copyDir is called a second time with the same source and destination.
CopyAgain ==
  /\ pc = AfterCopy
  /\ ~copied.done
  /\ copied' = [done |-> TRUE, dirs |-> dirs, files |-> files]
  /\ copyStack' = CopyCall
  /\ pc' = "copy"
  /\ UNCHANGED <<argVars, localVars, argv, templateTree, dirs0, files0, fsVars,
                 packageJson, cleanIdx, procs, out, exitCode>>

NextCopy == CopyEnterDir \/ CopyEntry \/ CopyReturn \/ CopyFails \/ CopyAgain

SpecCopy == InitCopy /\ [][NextCopy]_vars

-----------------------------------------------------------------------------
(* The manifest edit and removeTailwind on their own *)

\* A file the template does not ship.
Absent == [kind |-> "absent"]

\* Contents of src/index.css and src/style.css: the import with either quote,
\* with and without the semicolon, the older directives, and no Tailwind.
CssTexts ==
  { <<"@import", " ", "\"", "tailwindcss", "\"", ";", "\n", "body{}">>,
    <<"@import", " ", "'", "tailwindcss", "'", "\n", "h1{}", "\n">>,
    <<"@tailwind", " ", "base", ";", "\n",
      "@tailwind", " ", "utilities", ";", "\n", "h1{}">>,
    <<"h1{}", "\n", "@import", " ", "\"", "./app.css", "\"", ";">> }

\* Contents of index.html.
HtmlTexts ==
  { <<"<div", " ", "id=", "\"", "root", "\"", " ",
      "class=", "\"", "p-4", "\"", ">">>,
    <<"<div", " ", "data-", "class=", "\"", "hero", "\"", " ",
      "class=", "\"", "p-4", " ", "flex", "\"", ">", "\n",
      "<p", " ", "class=", "\"", "\"", ">">>,
    <<"<div", " ", "id=", "\"", "app", "\"", ">">> }

\* The build configs the templates ship.
ShippedViteConfigs == {ViteConfigReact, ViteConfigVanilla, ViteConfigVanillaTs}

\* A build config with one plugin per line and a trailing comma.
ViteConfigMultiline ==
  <<"import", " ", "tailwindcss", " ", "from", " ", "'", "@tailwindcss/vite",
      "'", ";", "\n",
    "plugins:", " ", "[", "\n", " ", "tailwindcss", "()", ",", "\n", "]", ",",
      "\n">>

\* A build config whose only plugin is followed by a spaced comma.
ViteConfigSpaced ==
  <<"plugins:", " ", "[", " ", "tailwindcss", "()", " ", ",", " ", "]", "\n">>

ViteTexts ==
  ShippedViteConfigs \cup {ViteConfigMultiline, ViteConfigSpaced}

\* What the copied tree can hold at the i-th target of removeTailwind.
TargetOptions(i) ==
  {Absent} \cup
    { Text(t) : t \in CASE i = 1 -> CssTexts
                       [] i = 2 -> {t \in CssTexts : t[1] \in {"@tailwind", "h1{}"}}
                       [] i = 3 -> HtmlTexts
                       [] i = 4 -> ViteTexts
                       [] i = 5 -> {ViteConfigVanillaTs, ViteConfigMultiline}
                       [] i = 6 -> {ViteConfigReact} }

ManifestOptions == {Absent, Json(TemplateManifest)}

\* The files of a tree with manifest m and cs[i] at the i-th target.
TreeFiles(m, cs) ==
  LET present == {i \in DOMAIN CleanTargets : cs[i] # Absent}
      paths   == {CleanTargets[i] : i \in present}
                   \cup (IF m # Absent THEN {PackageJsonPath} ELSE {})
  IN  [p \in paths |->
         IF p = PackageJsonPath THEN m
         ELSE cs[CHOOSE i \in present : CleanTargets[i] = p]]

\* Lines 122-168: copyDir has just returned, with any of the optional files
\* missing from the template.
InitMutate ==
  /\ pc = AfterCopy
  /\ projectDirectory = <<"my-app">>
  /\ options = [force |-> FALSE, skipInstall |-> TRUE, git |-> FALSE,
                template |-> NoString]
  /\ argv = [directory |-> projectDirectory, template |-> NoString]
  /\ copied = NotCopied
  /\ template = ReactJavascript
  /\ framework = <<"React">>
  /\ language = <<"JavaScript">>
  /\ cssFramework \in {"Yes", "No"}
  /\ \E m \in ManifestOptions, c1 \in TargetOptions(1), c2 \in TargetOptions(2),
        c3 \in TargetOptions(3), c4 \in TargetOptions(4),
        c5 \in TargetOptions(5), c6 \in TargetOptions(6) :
       templateTree = [dirs  |-> {<<"src">>},
                       files |-> TreeFiles(m, <<c1, c2, c3, c4, c5, c6>>)]
  /\ dirs0 = {}
  /\ files0 = NoFiles
  /\ dirs = {<<>>} \cup templateTree.dirs
  /\ files = templateTree.files
  /\ writes = {[op |-> "mkdir", path |-> d] : d \in dirs}
                \cup {[op |-> "copyFile", path |-> p] : p \in DOMAIN files}
  /\ copyStack = <<>>
  /\ packageJson = [name |-> ""]
  /\ cleanIdx = 0
  /\ procs = <<>>
  /\ out = <<"prompt_choices", "looking", "using_template", "creating">>
  /\ exitCode = 0

NextMutate ==
  \/ ReadManifest
  \/ WriteManifest
  \/ ManifestIOFails
  \/ StartClean
  \/ RewriteFile
  \/ RewriteFails

SpecMutate == InitMutate /\ [][NextMutate]_vars

-----------------------------------------------------------------------------
(* Vocabulary of the properties *)

Has(msg) == \E i \in DOMAIN out : out[i] = msg

Count(cmd) == Cardinality({i \in DOMAIN procs : procs[i].cmd = cmd})

\* Some child running cmd has exited with a nonzero status.
Failed(cmd) ==
  \E i \in DOMAIN procs :
    procs[i].cmd = cmd /\ procs[i].exited /\ procs[i].status # 0

\* Some child running cmd has exited with status 0.
Succeeded(cmd) ==
  \E i \in DOMAIN procs :
    procs[i].cmd = cmd /\ procs[i].exited /\ procs[i].status = 0

GitCommands == {"git init", "git add .", "git commit"}

InstallCommands == {"bun --version", "bun install", "npm install"}

\* Nothing on disk differs from before the run and no child was started.
Untouched ==
  /\ dirs = dirs0
  /\ files = files0
  /\ writes = {}
  /\ procs = <<>>

\* The overwrite confirmation was asked and answered yes.
Confirmed == Has("prompt_overwrite") /\ pc \notin {"confirm", "cancelled"}

\* copyDir was called and has returned.
CopySucceeded == Has("creating") /\ copyStack = <<>>

-----------------------------------------------------------------------------
(* C1: When the target directory exists and force is false, the overwrite   *)
(* confirmation is requested, and nothing is written and no child process   *)
(* is started before it is answered; writes happen only if force is true,  *)
(* the user confirmed, or the directory did not exist.  Under force the    *)
(* confirmation is never requested.                                        *)
C1_ConfirmBeforeWrite ==
  /\ ~Untouched => (options.force \/ <<>> \notin dirs0 \/ Confirmed)
  /\ (<<>> \in dirs0 /\ ~options.force /\ pc \notin {"action", "start"})
       => Has("prompt_overwrite")
  /\ pc = "confirm" => Untouched
  /\ options.force => ~Has("prompt_overwrite")

C1_Witness == Confirmed /\ ~options.force /\ files # files0 /\ writes # {}

(* C2: A declined overwrite ends the run cancelled with exit code 0 and the *)
(* file system exactly as before: no copy, manifest edit, rewrite, git or  *)
(* install step is executed.                                               *)
C2_DeclineChangesNothing ==
  /\ Has("cancelled") => pc = "cancelled"
  /\ pc = "cancelled" =>
       /\ exitCode = 0
       /\ Untouched
       /\ out = <<"prompt_overwrite", "cancelled">>
       /\ <<>> \in dirs0 /\ ~options.force

C2_Witness == pc = "cancelled" /\ DOMAIN files0 # {} /\ files = files0

(* C3: The template directory is checked to exist before the target        *)
(* directory is created and before any file is copied; an unresolvable     *)
(* template aborts the run with a nonzero exit code and an error message,  *)
(* and nothing has been written.                                           *)
C3_ResolveBeforeWrite ==
  /\ ~Untouched => (template \in InstalledTemplates /\ Has("using_template"))
  /\ (template # NoString /\ template \notin InstalledTemplates) =>
       /\ pc \in {"resolve", "aborted"}
       /\ Untouched
       /\ pc = "aborted" =>
            /\ exitCode = 1
            /\ Has("error_not_found") \/ Has("error_format")

C3_Witness ==
  /\ pc = "aborted"
  /\ Has("error_not_found")
  /\ <<>> \in dirs0
  /\ Untouched

(* C4: The stages run in the order Copying, Mutating, CleaningFeature,      *)
(* GitInit, Installing, Done, each only after the one before it is over:   *)
(* no manifest edit or text rewrite happens while a file of the copy is    *)
(* pending, rewrites follow the manifest edit, no child starts before the  *)
(* rewrites are over or before the child before it has exited, and no git  *)
(* step follows an install step.                                           *)
ManifestWritten == [op |-> "writeFile", path |-> PackageJsonPath] \in writes

RewriteWritten ==
  \E i \in DOMAIN CleanTargets :
    [op |-> "writeFile", path |-> CleanTargets[i]] \in writes

CopyComplete ==
  /\ copyStack = <<>>
  /\ \A p \in DOMAIN templateTree.files :
       [op |-> "copyFile", path |-> p] \in writes /\ p \in DOMAIN files
  /\ \A d \in templateTree.dirs : d \in dirs

C4_StagesInOrder ==
  /\ copyStack # <<>> => pc \in {"copy", "aborted"}
  /\ (ManifestWritten \/ RewriteWritten \/ pc \in {"manifest", "manifest_write"})
       => CopyComplete
  /\ RewriteWritten =>
       /\ pc \notin {"manifest", "manifest_write"}
       /\ PackageJsonPath \in DOMAIN files => ManifestWritten
  /\ procs # <<>> =>
       /\ CopyComplete
       /\ Has("created")
       /\ cssFramework = "No" => cleanIdx = Len(CleanTargets) + 1
  /\ \A i \in DOMAIN procs : i < Len(procs) => procs[i].exited
  /\ \A i, j \in DOMAIN procs :
       (i < j /\ procs[i].cmd \in InstallCommands)
         => procs[j].cmd \notin GitCommands
  /\ pc = "done" => (~Running /\ Has("next_steps") /\ CopyComplete)

C4_Witness ==
  /\ pc = "done"
  /\ ManifestWritten
  /\ RewriteWritten
  /\ Succeeded("git commit")
  /\ Succeeded("bun install")

(* C5 as stated: once the copy has succeeded, no failure of a later stage   *)
(* (manifest read, parse or write, a rewrite, a git step, an install) ends *)
(* the run with a nonzero exit code.                                       *)
C5_NoAbortAfterCopy == CopySucceeded => (pc # "aborted" /\ exitCode = 0)

(* C5, amended: a run ends with a nonzero exit code only on an invalid or   *)
(* unresolvable template, a failure creating the project directory or      *)
(* copying, or a failure (read, parse, write) in the manifest edit or in a *)
(* text rewrite; a declined overwrite ends it with exit code 0.  Once the  *)
(* project is reported created, no failure of a git step or of an install  *)
(* ends the run with a nonzero exit code: each is reported and the run     *)
(* goes on to Done.                                                        *)
C5_OnlyEarlyStagesAbort ==
  /\ exitCode # 0 => pc = "aborted"
  /\ pc = "aborted" =>
       /\ exitCode = 1
       /\ procs = <<>>
       /\ ~Has("created")
       /\ out[Len(out)] \in
            {"error_format", "error_not_found", "error_copy", "error"}
       /\ (CopySucceeded /\ cssFramework # "No") =>
            (PackageJsonPath \in DOMAIN files /\ ~ManifestWritten)
  /\ (Has("created") \/ Has("warn_git") \/ Has("fallback_npm")
        \/ Has("error_install"))
       => (pc # "aborted" /\ exitCode = 0)
  /\ pc = "done" => Has("next_steps")

C5_Witness ==
  /\ pc = "done"
  /\ exitCode = 0
  /\ Failed("git init")
  /\ Failed("bun install")
  /\ Failed("npm install")

(* C6: A bun install that exits nonzero is followed by exactly one npm      *)
(* install and bun is never retried: a run spawns at most one probe, one   *)
(* bun install and one npm install, and npm install is spawned only right  *)
(* after the probe or the bun install has exited nonzero.                  *)
C6_OneFallbackAttempt ==
  /\ Count("bun --version") <= 1
  /\ Count("bun install") <= 1
  /\ Count("npm install") <= 1
  /\ \A j \in DOMAIN procs :
       procs[j].cmd = "npm install" =>
         /\ j > 1
         /\ procs[j - 1].cmd \in {"bun --version", "bun install"}
         /\ procs[j - 1].exited
         /\ procs[j - 1].status # 0
  /\ \A i, j \in DOMAIN procs :
       (i < j /\ procs[i].cmd = "npm install")
         => procs[j].cmd \notin {"bun --version", "bun install"}
  /\ Failed("bun install") =>
       \/ pc = "npm_install"
       \/ Count("npm install") = 1

C6_Witness ==
  /\ pc = "done"
  /\ Failed("bun install")
  /\ Count("bun install") = 1
  /\ Count("npm install") = 1

(* C7: When the probe bun --version fails, bun install is never spawned and *)
(* npm install is; and a run whose bun install failed and whose npm        *)
(* install exited zero goes on to Done with exit code 0.                   *)
C7_ProbeFailureSelectsFallback ==
  /\ Failed("bun --version") =>
       /\ Count("bun install") = 0
       /\ pc \in {"npm_install", "summary", "done"}
       /\ pc = "npm_install" \/ Count("npm install") = 1
  /\ (Failed("bun install") /\ Succeeded("npm install")) =>
       /\ pc \in {"summary", "done"}
       /\ exitCode = 0
       /\ Has("install_ok")
       /\ ~Has("error_install")

C7_Witness ==
  /\ pc = "done"
  /\ Failed("bun --version")
  /\ Succeeded("npm install")
  /\ exitCode = 0

(* C8: When npm install also exits nonzero the failure is reported and is   *)
(* not fatal: the run does not abort, nothing of the project tree is       *)
(* removed or changed, the next steps are still shown and the exit code    *)
(* is 0.                                                                   *)
C8_FallbackFailureReported ==
  Failed("npm install") =>
    /\ Has("error_install")
    /\ pc \in {"summary", "done"}
    /\ exitCode = 0
    /\ pc = "done" => Has("next_steps")

C8_TreeKept ==
  (pc \in InstallSteps \cup {"summary"}) =>
    (dirs' = dirs /\ files' = files /\ writes' = writes /\ pc' # "aborted")

C8_FallbackFailureIsWarning ==
  [] C8_FallbackFailureReported /\ [][C8_TreeKept]_vars

C8_Witness ==
  /\ pc = "done"
  /\ Failed("npm install")
  /\ Has("next_steps")
  /\ CopyComplete

(* C9: Git runs only when requested, as init, add, commit in that order,    *)
(* each started only after the one before exited with status 0; a nonzero  *)
(* exit skips the remaining git steps, is reported as a warning, and the   *)
(* run goes on to Installing (unless skipped) and Done with exit code 0.   *)
C9_GitStepsInSequence ==
  /\ (\E i \in DOMAIN procs : procs[i].cmd \in GitCommands) => options.git
  /\ \A i \in DOMAIN procs :
       /\ procs[i].cmd = "git init" => i = 1
       /\ procs[i].cmd = "git add ." =>
            procs[i - 1] = [cmd |-> "git init", exited |-> TRUE, status |-> 0]
       /\ procs[i].cmd = "git commit" =>
            procs[i - 1] = [cmd |-> "git add .", exited |-> TRUE, status |-> 0]
  /\ \A i \in DOMAIN procs :
       (procs[i].cmd \in GitCommands /\ procs[i].exited /\ procs[i].status # 0)
         => /\ Has("warn_git")
            /\ \A j \in DOMAIN procs : j > i => procs[j].cmd \notin GitCommands
            /\ pc \in {"install", "summary", "done"} \cup InstallSteps
            /\ exitCode = 0
            /\ options.skipInstall => procs[Len(procs)].cmd \in GitCommands
            /\ (~options.skipInstall /\ pc \in {"summary", "done"})
                 => Count("bun --version") = 1
  /\ (options.git /\ pc \in {"install", "summary", "done"} \cup InstallSteps)
       => Count("git init") = 1

C9_Witness ==
  /\ pc = "done"
  /\ Succeeded("git init")
  /\ Failed("git add .")
  /\ Count("bun --version") = 1
  /\ exitCode = 0

(* C10: With skip-install set no probe and no install is started; without   *)
(* it the Installing stage is entered after a successful scaffold.         *)
C10_SkipInstallSkips ==
  /\ options.skipInstall =>
       /\ \A i \in DOMAIN procs : procs[i].cmd \notin InstallCommands
       /\ pc \notin InstallSteps
       /\ ~Has("installing")
  /\ (~options.skipInstall /\ pc \in {"summary", "done"}) =>
       /\ Has("installing")
       /\ Count("bun --version") = 1

C10_Witness ==
  /\ pc = "done"
  /\ options.skipInstall
  /\ Has("created")
  /\ CopyComplete

-----------------------------------------------------------------------------
(* The manifest as the copy left it: the template's, else the one already  *)
(* in the target.                                                          *)
CopiedManifest ==
  IF PackageJsonPath \in DOMAIN templateTree.files
    THEN templateTree.files[PackageJsonPath]
    ELSE files0[PackageJsonPath]

DependencyMaps == {"dependencies", "devDependencies"}

\* The run is past the manifest edit and has not aborted.
PastManifest ==
  pc \in {"clean", "rewrite", "git", "install", "summary", "done"}
           \cup GitSteps \cup InstallSteps

(* C11: When the manifest edit has run on a manifest present in the copied *)
(* tree, the written manifest's name is the project name, whether Tailwind *)
(* was accepted or declined, and every field other than the name and the   *)
(* dependency maps is as in the copied manifest.                           *)
C11_ManifestNamed ==
  /\ (PastManifest /\ PackageJsonPath \in DOMAIN files) => ManifestWritten
  /\ ManifestWritten =>
       LET written  == files[PackageJsonPath]
           original == Parse(CopiedManifest)
       IN  /\ CanParse(written)
           /\ "name" \in DOMAIN Parse(written)
           /\ Parse(written).name = ProjectName
           /\ DOMAIN Parse(written) = DOMAIN original \cup {"name"}
           /\ \A k \in DOMAIN original \ ({"name"} \cup DependencyMaps) :
                Parse(written)[k] = original[k]

C11_Witness ==
  /\ pc = "done"
  /\ ManifestWritten
  /\ cssFramework = "Yes"
  /\ PackageJsonPath \in DOMAIN templateTree.files
  /\ Parse(CopiedManifest).name # "my-app"
  /\ Parse(files[PackageJsonPath]).name = "my-app"

HasManifest ==
  \/ PackageJsonPath \in DOMAIN templateTree.files
  \/ PackageJsonPath \in DOMAIN files0

(* C12: After the manifest edit with Tailwind declined, the written        *)
(* manifest holds none of tailwindcss, @tailwindcss/vite, postcss and      *)
(* autoprefixer in dependencies or in devDependencies, and every other     *)
(* dependency key is still there with its original value.                  *)
C12_NoTailwindKeys ==
  (ManifestWritten /\ cssFramework = "No") =>
    LET written  == Parse(files[PackageJsonPath])
        original == Parse(CopiedManifest)
    IN  \A m \in DependencyMaps \cap DOMAIN original :
          /\ m \in DOMAIN written
          /\ DOMAIN written[m] \cap TailwindDeps = {}
          /\ \A k \in DOMAIN original[m] \ TailwindDeps :
               k \in DOMAIN written[m] /\ written[m][k] = original[m][k]

\* The file at p as the copy left it: the template's, else the target's own.
CopiedFile(p) ==
  IF p \in DOMAIN templateTree.files THEN templateTree.files[p] ELSE files0[p]

(* C13: With Tailwind accepted, neither the key deletion nor a rewrite     *)
(* runs: the written manifest's dependency maps and every rewrite target   *)
(* in the project are as the copy left them.                               *)
C13_AcceptedLeavesCopies ==
  (cssFramework = "Yes" /\ CopyComplete) =>
    /\ ~RewriteWritten
    /\ ~Has("removing_tailwind")
    /\ pc # "rewrite"
    /\ \A i \in DOMAIN CleanTargets :
         CleanTargets[i] \in DOMAIN files =>
           files[CleanTargets[i]] = CopiedFile(CleanTargets[i])
    /\ ManifestWritten =>
         LET written  == Parse(files[PackageJsonPath])
             original == Parse(CopiedManifest)
         IN  \A m \in DependencyMaps :
               /\ m \in DOMAIN written <=> m \in DOMAIN original
               /\ m \in DOMAIN original => written[m] = original[m]

C13_Witness ==
  /\ pc = "done"
  /\ cssFramework = "Yes"
  /\ CopyComplete
  /\ ManifestWritten
  /\ "tailwindcss" \in DOMAIN Parse(files[PackageJsonPath]).dependencies
  /\ <<"src", "index.css">> \in DOMAIN files
  /\ <<"vite.config.js">> \in DOMAIN files

(* C14: A copied manifest that is not valid JSON is fatal: the run stops   *)
(* at the manifest edit with an error message and exit code 1, the file is *)
(* not overwritten, and no rewrite, git step or install step runs.         *)
C14_MalformedManifestFatal ==
  (CopyComplete /\ HasManifest /\ ~CanParse(CopiedManifest)) =>
    /\ pc \in {"manifest", "aborted"}
    /\ pc = "aborted" => (Has("error") /\ exitCode = 1)
    /\ ~Has("warn_no_package_json")
    /\ ~ManifestWritten
    /\ files[PackageJsonPath] = CopiedManifest
    /\ ~RewriteWritten
    /\ procs = <<>>

C14_Witness ==
  /\ CopyComplete
  /\ HasManifest
  /\ ~CanParse(CopiedManifest)
  /\ pc = "aborted"
  /\ Has("error")
  /\ exitCode = 1

\* The files copyFile has written so far hold the template's content.
CopiedSoFarKept ==
  \A w \in writes :
    w.op = "copyFile" =>
      w.path \in DOMAIN files /\ files[w.path] = templateTree.files[w.path]

(* C15: A failure of mkdir, readdir or copyFile during the copy is         *)
(* reported, ends the run with exit code 1 at that entry, is followed by   *)
(* no manifest edit, rewrite, git step or install step, and leaves the     *)
(* files copied so far on disk.                                            *)
C15_CopyFailureAborts ==
  /\ [](Has("error_copy") =>
          /\ pc = "aborted"
          /\ exitCode = 1
          /\ Cardinality({i \in DOMAIN out : out[i] = "error_copy"}) = 1
          /\ ~ManifestWritten
          /\ ~RewriteWritten
          /\ procs = <<>>
          /\ CopiedSoFarKept)
  /\ [][Has("error_copy") => UNCHANGED <<dirs, files, writes, copyStack>>]_vars
  /\ [][(~Has("error_copy") /\ Has("error_copy")') =>
          UNCHANGED <<dirs, files, writes, copyStack>>]_vars

C15_Witness ==
  /\ Has("error_copy")
  /\ pc = "aborted"
  /\ \E w \in writes : w.op = "copyFile"
  /\ \E p \in DOMAIN templateTree.files : p \notin DOMAIN files

(* C16: When copyDir has returned, the destination exists, every file of   *)
(* the source, at any depth, is in the destination at the same relative    *)
(* path with the same content, every folder of the source exists in the    *)
(* destination, and the source is as it was.                               *)
C16_CopyIsFaithful ==
  /\ [](pc = AfterCopy =>
          /\ <<>> \in dirs
          /\ \A p \in DOMAIN templateTree.files :
               p \in DOMAIN files /\ files[p] = templateTree.files[p]
          /\ \A d \in templateTree.dirs : d \in dirs)
  /\ [][templateTree' = templateTree]_vars

C16_Witness ==
  /\ pc = AfterCopy
  /\ templateTree = TreeDeep
  /\ dirs0 = {}
  /\ <<"src", "components", "App.jsx">> \in DOMAIN files
  /\ <<"public">> \in dirs

(* C17: Copying the same source onto the same destination a second time    *)
(* leaves every file of the destination with the content it had after the  *)
(* first copy, whatever the source and whatever the destination held.      *)
C17_CopyIdempotent ==
  (pc = AfterCopy /\ copied.done) =>
    /\ files = copied.files
    /\ dirs = copied.dirs

C17_Witness ==
  /\ pc = AfterCopy
  /\ copied.done
  /\ files0 = PartialTarget.files
  /\ templateTree = TreeDeep
  /\ [op |-> "copyFile", path |-> <<"src", "main.jsx">>] \in writes

\* The messages of the template validation and lookup.
ResolveMessages == {"error_format", "looking", "error_not_found", "using_template"}

\* Every message m was printed before every message of the set later.
Before(m, later) ==
  \A i, j \in DOMAIN out : (out[i] = m /\ out[j] \in later) => i < j

(* C18 as stated: a template id that does not resolve ends the run without *)
(* the overwrite confirmation ever being requested.                        *)
C18_ResolveBeforeConflictCheck ==
  Has("error_not_found") => ~Has("prompt_overwrite")

(* C18: The conflict check comes first: when the target exists and force   *)
(* is off, the confirmation is requested before the template id is         *)
(* validated or looked up, and a template that does not resolve then ends  *)
(* the run with exit code 1 and nothing written.                           *)
C18_ConflictCheckFirst ==
  /\ (<<>> \in dirs0 /\ ~options.force /\ pc \notin {"action", "start"}) =>
       Has("prompt_overwrite")
  /\ Before("prompt_overwrite", ResolveMessages)
  /\ Has("error_not_found") =>
       /\ pc = "aborted"
       /\ exitCode = 1
       /\ Untouched

C18_Witness ==
  /\ Has("prompt_overwrite")
  /\ Has("error_not_found")
  /\ pc = "aborted"

\* The positions before the template has been selected.
BeforeSelection == {"action", "start", "confirm", "select", "cancelled"}

(* C19: A --template id is accepted exactly when it names an installed     *)
(* template: the run then goes on with that very template, and with any    *)
(* other id it ends with an error about the template and exit code 1.      *)
C19_TemplateAcceptedIff ==
  (argv.template # NoString /\ pc \notin BeforeSelection \cup {"resolve"}) =>
    IF argv.template \in InstalledTemplates
      THEN /\ template = argv.template
           /\ ~Has("error_not_found")
           /\ ~Has("error_format")
      ELSE /\ pc = "aborted"
           /\ exitCode = 1
           /\ Has("error_not_found") \/ Has("error_format")
           /\ ~Has("creating")

(* C20: With a project directory and without --template the three choices  *)
(* are prompted and the template is the one formed from the chosen         *)
(* framework and language; the prompts are bypassed only when --template   *)
(* is given.                                                               *)
C20_PromptsWithoutTemplate ==
  /\ (argv.directory # NoString /\ argv.template = NoString
        /\ pc \notin BeforeSelection) =>
       /\ Has("prompt_choices")
       /\ template = TemplateOf(framework[1], language[1])
  /\ Has("prompt_choices") => argv.template = NoString

-----------------------------------------------------------------------------
\* removeTailwind has rewritten its i-th target.
RewrittenAt(i) == [op |-> "writeFile", path |-> CleanTargets[i]] \in writes

\* The position of the first atom a from i on, else the end of s.
RECURSIVE Through(_, _, _)
Through(s, i, a) ==
  IF i >= Len(s) \/ At(s, i) = a THEN i ELSE Through(s, i + 1, a)

\* A Tailwind statement at the start of s: the import, or an @tailwind
\* directive up to its semicolon.
TailwindStatement(s) ==
  IF At(s, 1) = "@tailwind" THEN Through(s, 1, ";") ELSE CssImportMatch(s)

\* s without its Tailwind statements, everything else in order.
RECURSIVE StripTailwind(_)
StripTailwind(s) ==
  IF s = <<>> THEN <<>>
  ELSE LET n == TailwindStatement(s)
       IN  IF n > 0 THEN StripTailwind(SubSeq(s, n + 1, Len(s)))
           ELSE <<Head(s)>> \o StripTailwind(Tail(s))

(* C21: With Tailwind declined, a rewritten CSS entry file holds neither   *)
(* the tailwindcss import (either quote, with or without semicolon) nor an *)
(* @tailwind directive, and the rest of its content is as it was, in order.*)
C21_CssCleaned ==
  \A i \in {1, 2} :
    (cssFramework = "No" /\ RewrittenAt(i)) =>
      files[CleanTargets[i]].text =
        StripTailwind(CopiedFile(CleanTargets[i]).text)

\* s without the attributes named class: an attribute name begins after
\* white space; prev is the atom before s.
RECURSIVE StripClassAttributes(_, _)
StripClassAttributes(prev, s) ==
  IF s = <<>> THEN <<>>
  ELSE LET n == IF prev \in Blank THEN ClassAttrMatch(s) ELSE 0
       IN  IF n > 0
             THEN StripClassAttributes(prev, SubSeq(s, n + 1, Len(s)))
             ELSE <<Head(s)>> \o StripClassAttributes(Head(s), Tail(s))

(* C22: With Tailwind declined, the rewritten index.html holds no          *)
(* class="..." attribute and every other attribute, data-class included,   *)
(* keeps its name and value.                                               *)
C22_ClassAttributesOnly ==
  (cssFramework = "No" /\ RewrittenAt(3)) =>
    files[CleanTargets[3]].text =
      StripClassAttributes("", CopiedFile(CleanTargets[3]).text)

\* The plugins invoked in s other than Tailwind's.
OtherPlugins(s) ==
  {s[k] : k \in {j \in DOMAIN s : At(s, j + 1) = "()"
                                    /\ s[j] \notin {"tailwindcss", "/vite"}}}

\* The plugins list opening at position k of s has no entry left.
ListEmptyAt(s, k) ==
  /\ At(s, k) = "plugins:"
  /\ \A j \in (k + 3)..(Through(s, k, "]") - 1) : s[j] \in Blank \cup {","}

\* A build config of the copied tree was rewritten.
ViteRewritten(i) == i \in 4..6 /\ cssFramework = "No" /\ RewrittenAt(i)

(* C23: With Tailwind declined, a rewritten build config invokes           *)
(* tailwindcss() nowhere, still invokes every other plugin it invoked, and *)
(* a plugins list left without entries reads plugins: [].                  *)
C23_PluginRemoved ==
  \A i \in 4..6 :
    ViteRewritten(i) =>
      LET now == files[CleanTargets[i]].text
          was == CopiedFile(CleanTargets[i]).text
      IN  /\ \A k \in DOMAIN now :
               ~(now[k] = "tailwindcss" /\ At(now, k + 1) = "()")
          /\ OtherPlugins(now) = OtherPlugins(was)
          /\ \A k \in DOMAIN now :
               ListEmptyAt(now, k) => SubSeq(now, k, k + 3) = EmptyPlugins

C23_Witness ==
  /\ pc = "git"
  /\ ViteRewritten(4)
  /\ ViteRewritten(6)
  /\ CopiedFile(CleanTargets[4]).text = ViteConfigMultiline
  /\ OtherPlugins(files[CleanTargets[6]].text) = {"react"}
  /\ files[CleanTargets[4]].text # ReplaceAll(ViteConfigMultiline, "pluginCall", <<>>)

-----------------------------------------------------------------------------
Terminals == {"done", "cancelled", "aborted"}

ErrorMessages == {"error_format", "error_not_found", "error_copy", "error"}

(* C24: When every prompt and child returns, the run ends in one of three  *)
(* outcomes and stays there: done with exit code 0 and the next steps      *)
(* printed; cancelled with exit code 0 and no next steps; aborted with a   *)
(* nonzero exit code and an error message and no next steps.  No git or    *)
(* install step changes the exit code.                                     *)
C24_ThreeOutcomes ==
  /\ <>(pc \in Terminals)
  /\ [](pc = "done" => (exitCode = 0 /\ Has("next_steps")))
  /\ [](pc = "cancelled" =>
          (exitCode = 0 /\ Has("cancelled") /\ ~Has("next_steps")))
  /\ [](pc = "aborted" =>
          /\ exitCode # 0
          /\ out # <<>> /\ out[Len(out)] \in ErrorMessages
          /\ ~Has("next_steps"))
  /\ [](pc \notin Terminals => (exitCode = 0 /\ ~Has("next_steps")))
  /\ [][(pc \in Terminals) => UNCHANGED vars]_vars
  /\ [][procs' # procs => exitCode' = exitCode]_vars

C24_Witness ==
  /\ pc = "done"
  /\ exitCode = 0
  /\ Failed("git init")
  /\ Failed("bun install")
  /\ Failed("npm install")
  /\ Has("next_steps")

-----------------------------------------------------------------------------
Placeholder == <<"gitignore">>
Dotfile == <<".gitignore">>

\* The template ships a gitignore file under the placeholder name.
ShipsPlaceholder == Placeholder \in DOMAIN templateTree.files

(* C25 as stated: once the copy is over, a placeholder gitignore file of   *)
(* the template is in the project as .gitignore and no longer under its    *)
(* placeholder name, before git starts.                                    *)
C25_GitignoreRenamed ==
  (ShipsPlaceholder /\ CopyComplete /\ (procs # <<>> \/ pc = "done")) =>
    (Dotfile \in DOMAIN files /\ Placeholder \notin DOMAIN files)

(* C25: No file is renamed: once the copy is over, every file of the       *)
(* template is in the project under the name the template gives it, a      *)
(* placeholder gitignore file included, and the project holds no file      *)
(* under a name that neither the template nor the target had.              *)
C25_NamesKept ==
  /\ DOMAIN files \subseteq DOMAIN files0 \cup DOMAIN templateTree.files
  /\ CopyComplete => DOMAIN templateTree.files \subseteq DOMAIN files
  /\ (ShipsPlaceholder /\ CopyComplete) =>
       /\ files[Placeholder].kind = "text"
       /\ files[Placeholder] = templateTree.files[Placeholder]
       /\ Dotfile \notin DOMAIN files

C25_Witness ==
  /\ ShipsPlaceholder
  /\ pc = "done"
  /\ Succeeded("git commit")
  /\ Placeholder \in DOMAIN files
  /\ Dotfile \notin DOMAIN files

-----------------------------------------------------------------------------
\* The files the target held that the template has no file for.
OwnFiles == DOMAIN files0 \ DOMAIN templateTree.files

(* C26: The copy adds and overwrites, it never prunes: while and right     *)
(* after the copy every file the target held at a path the template does   *)
(* not have is there with its content, under force and after a confirmed   *)
(* overwrite alike, and no step of the run removes a file or a folder.     *)
C26_CopyAdditive ==
  /\ [](DOMAIN files0 \subseteq DOMAIN files /\ dirs0 \subseteq dirs)
  /\ [][DOMAIN files \subseteq DOMAIN files' /\ dirs \subseteq dirs']_vars
  /\ []((pc \in {"copy", AfterCopy} \/ Has("error_copy")) =>
          \A p \in OwnFiles : files[p] = files0[p])
  /\ [](\A p \in OwnFiles \ ({PackageJsonPath} \cup
                              {CleanTargets[i] : i \in DOMAIN CleanTargets}) :
          files[p] = files0[p])

C26_Witness ==
  /\ pc = "done"
  /\ options.force
  /\ CopyComplete
  /\ <<"notes.txt">> \in OwnFiles
  /\ files[<<"notes.txt">>] = files0[<<"notes.txt">>]

-----------------------------------------------------------------------------
\* The paths the manifest edit and removeTailwind look for.
OptionalFiles ==
  {PackageJsonPath} \cup {CleanTargets[i] : i \in DOMAIN CleanTargets}

\* The paths written with writeFile so far.
Rewritten == {w.path : w \in {v \in writes : v.op = "writeFile"}}

(* C27: With Tailwind declined and any of the optional files missing from  *)
(* the copied tree, the manifest edit and removeTailwind never abort on a  *)
(* missing file, rewrite exactly the optional files that exist once they   *)
(* are over, and create no file.                                           *)
C27_MissingFilesSkipped ==
  cssFramework = "No" =>
    /\ DOMAIN files = DOMAIN templateTree.files
    /\ Rewritten \subseteq OptionalFiles \cap DOMAIN templateTree.files
    /\ pc = "git" => Rewritten = OptionalFiles \cap DOMAIN templateTree.files
    /\ Has("warn_no_package_json") => PackageJsonPath \notin DOMAIN files
    /\ pc = "aborted" =>
         IF cleanIdx = 0 THEN PackageJsonPath \in DOMAIN files
         ELSE CleanTargets[cleanIdx] \in DOMAIN files

C27_Witness ==
  /\ cssFramework = "No"
  /\ pc = "git"
  /\ DOMAIN templateTree.files = {<<"index.html">>, <<"vite.config.ts">>}
  /\ Rewritten = {<<"index.html">>, <<"vite.config.ts">>}
  /\ Has("warn_no_package_json")

-----------------------------------------------------------------------------
InstallMessages ==
  {"installing", "using_bun", "fallback_npm", "error_install", "install_ok"}

\* The last message of the install stage printed so far.
LastInstallMessage ==
  out[CHOOSE i \in DOMAIN out :
        /\ out[i] \in InstallMessages
        /\ \A j \in DOMAIN out : out[j] \in InstallMessages => j <= i]

(* C28: The success message of the install stage is printed only when bun  *)
(* install or npm install exited with status 0; when both attempts failed  *)
(* the failure message is the last message of the stage.                   *)
C28_SuccessOnlyAfterInstall ==
  /\ Has("install_ok") =>
       (Succeeded("bun install") \/ Succeeded("npm install"))
  /\ (Failed("npm install") /\ pc \in {"summary", "done"}) =>
       LastInstallMessage = "error_install"

-----------------------------------------------------------------------------
(* C29: The name written to the manifest is the last segment of the        *)
(* resolved absolute target directory; with the directory omitted or given *)
(* as . it is the current directory's own name, never . or ..              *)
C29_NameIsTargetDirName ==
  ManifestWritten =>
    /\ Parse(files[PackageJsonPath]).name = Basename(AbsoluteProjectPath)
    /\ Parse(files[PackageJsonPath]).name \notin {".", ".."}

-----------------------------------------------------------------------------
\* s invokes the Tailwind plugin.
CallsTailwind(s) ==
  \E k \in DOMAIN s : s[k] = "tailwindcss" /\ At(s, k + 1) = "()"

\* s has an import statement binding tailwindcss.
ImportsTailwind(s) ==
  \E k \in DOMAIN s :
    /\ s[k] = "import"
    /\ At(s, k + 2) = "tailwindcss"
    /\ At(s, k + 4) = "from"

(* C30: For the build config of every shipped template, a rewrite that     *)
(* removes the tailwindcss() call also removes the import of the plugin:   *)
(* no import tailwindcss from ... line is left without its call.           *)
C30_ImportGoesWithCall ==
  \A i \in 4..6 :
    (ViteRewritten(i)
       /\ CopiedFile(CleanTargets[i]).text \in ShippedViteConfigs) =>
      LET now == files[CleanTargets[i]].text
          was == CopiedFile(CleanTargets[i]).text
      IN  (CallsTailwind(was) /\ ~CallsTailwind(now)) => ~ImportsTailwind(now)

====
